---- MODULE Spec2Model ----
(***************************************************************************)
(* Model of src/app.py: the pandas store of HomicidiosDataProcessor        *)
(* (cargar_datos, _limpiar_datos, _crear_indices), the get_data dependency,*)
(* the startup event and the query handlers built on the store.            *)
(*                                                                         *)
(* Numbers.  Rates and indices are kept as exact integers in hundredths    *)
(* (the code rounds them to 2 decimals); clasificar_riesgo takes its       *)
(* argument in thousandths so that 19.999 can be written.  A float that is *)
(* not a finite number is the cell NaN or Inf.                             *)
(*                                                                         *)
(* Strings.  String literals of the source that are not ASCII are written  *)
(* in ASCII: the column 'semana_año' is "semana_ano" and the five risk     *)
(* labels are written as in EtiquetasRiesgo below.                         *)
(***************************************************************************)
EXTENDS Integers, Sequences, FiniteSets, TLC

VARIABLES
    df,               \* processor.df: None, or a table (columns, rows)
    entidades_info,   \* processor.entidades_info
    municipios_info,  \* processor.municipios_info
    fase,             \* lifecycle: before startup / serving
    carga,            \* position of a running cargar_datos call
    resp              \* the last response sent to a client

vars == <<df, entidades_info, municipios_info, fase, carga, resp>>

----------------------------------------------------------------------------
(* Bounds *)

MaxFilas == 3        \* rows of a CSV file
MaxLimite == 2       \* largest value of the limite parameter tried
MaxIndice == 120     \* largest index value (units) given to clasificar_riesgo
MaxHorizonte == 2    \* months ahead that a forecast is asked for
MesesLibres == 6     \* months whose count varies in a series of monthly counts
MaxCasosMes == 1     \* records of one month in a series of monthly counts
MaxFilasCarga == 2   \* rows of a file that is loaded twice

----------------------------------------------------------------------------
(* Cells of a table.  One shape for every cell so that any two compare. *)

Str(s) == [s |-> s, t |-> "str", n |-> 0]
Num(n) == [s |-> "", t |-> "num", n |-> n]
NaN == [s |-> "", t |-> "nan", n |-> 0]
Inf == [s |-> "", t |-> "inf", n |-> 0]
Fecha(y, m) == [s |-> "", t |-> "fecha", n |-> y * 100 + m]
NaT == [s |-> "", t |-> "nat", n |-> 0]
Nulo == [s |-> "", t |-> "null", n |-> 0]

EsNulo(c) == c.t \in {"nan", "nat", "null"}

(* Seq helpers *)
Rango(f) == {f[i] : i \in DOMAIN f}

Max(S) == CHOOSE x \in S : \A y \in S : y <= x

(* round-half-to-even of the rational num/den, den > 0, num >= 0 *)
RoundHalfEven(num, den) ==
    LET q == num \div den
        r == num % den
    IN  IF 2 * r < den THEN q
        ELSE IF 2 * r > den THEN q + 1
        ELSE IF q % 2 = 0 THEN q ELSE q + 1

----------------------------------------------------------------------------
(* The CSV files the program may be started on. *)

(* the texts of the files that are numbers, and their values *)
EsNumero(s) ==
    s \in {"0", "1", "2", "3", "4", "19", "30", "99", "50000", "100000", "200000",
           "30000000", "2023", "2024"}

ParseNum(s) ==
    CASE s = "0" -> 0
      [] s = "1" -> 1
      [] s = "2" -> 2
      [] s = "3" -> 3
      [] s = "4" -> 4
      [] s = "19" -> 19
      [] s = "30" -> 30
      [] s = "99" -> 99
      [] s = "50000" -> 50000
      [] s = "100000" -> 100000
      [] s = "200000" -> 200000
      [] s = "30000000" -> 30000000
      [] s = "2023" -> 2023
      [] s = "2024" -> 2024

(* pd.to_datetime(errors='coerce') on the date texts that occur *)
ParseFecha(s) ==
    CASE s = "2024-01-15" -> Fecha(2024, 1)
      [] s = "2024-02-10" -> Fecha(2024, 2)
      [] s = "2024-03-20" -> Fecha(2024, 3)
      [] s = "2023-12-31" -> Fecha(2023, 12)
      [] OTHER -> NaT

ColumnasCsv ==
    <<"", "clave_entidad", "nom_ent", "clave_municipio", "nom_mun",
      "fecha_ocurr", "fecha_nac", "anio_ocur", "pob_total", "lat_decimal",
      "lon_decimal", "edad_anos", "edad_cat", "sexo_cat", "causa_def_cat",
      "lugar_ocur_cat", "area_ur", "afromex", "conindig", "nom_loc">>

CabeceraSinFecha == SelectSeq(ColumnasCsv, LAMBDA c : c # "fecha_ocurr")

(* One line of the file: the text of each field. *)
Linea(ent, mun, fecha, anio, pob, causa) ==
    [c \in Rango(ColumnasCsv) |->
        CASE c = "clave_entidad" -> ent
          [] c = "nom_ent" -> ent
          [] c = "clave_municipio" -> mun
          [] c = "nom_mun" -> mun
          [] c = "fecha_ocurr" -> fecha
          [] c = "fecha_nac" -> ""
          [] c = "anio_ocur" -> anio
          [] c = "pob_total" -> pob
          [] c = "lat_decimal" -> IF mun = "M1" THEN "19" ELSE "30"
          [] c = "lon_decimal" -> "99"
          [] c = "edad_anos" -> "30"
          [] c = "edad_cat" -> "Adulto"
          [] c = "sexo_cat" -> "Hombre"
          [] c = "causa_def_cat" -> causa
          [] c = "lugar_ocur_cat" -> "Via publica"
          [] c = "area_ur" -> "Urbana"
          [] c = "afromex" -> "2"
          [] c = "conindig" -> "2"
          [] c = "nom_loc" -> "Centro"
          [] OTHER -> "0"]

Lineas ==
    { Linea("R1", "M1", "2024-01-15", "2024", "100000", "A"),
      Linea("R1", "M2", "2024-02-10", "2024", "200000", "B"),
      Linea("R2", "M1", "2024-01-15", "2024", "0", "B"),
      Linea("R2", "M3", "2024-03-20", "2024", "200000", "A"),
      Linea("2", "M3", "2024-02-10", "2024", "s/d", "A"),
      Linea("R3", "M3", "sin fecha", "2024", "", "B"),
      Linea("R1", "M1", "2023-12-31", "2023", "100000", "A"),
      Linea("R2", "M3", "2023-12-31", "2024", "30000000", "A") }

SeqsHasta(S, n) == UNION {[1..k -> S] : k \in 0..n}

(* an unreadable file, the files with every column, and short files whose
   header lacks fecha_ocurr *)
ArchivosHasta(n) ==
    {[legible |-> FALSE, header |-> <<>>, lineas |-> <<>>]} \cup
    {[legible |-> TRUE, header |-> ColumnasCsv, lineas |-> ls] :
        ls \in SeqsHasta(Lineas, n)} \cup
    {[legible |-> TRUE, header |-> CabeceraSinFecha, lineas |-> ls] :
        ls \in SeqsHasta(Lineas, 1)}

Archivos == ArchivosHasta(MaxFilas)

----------------------------------------------------------------------------
(* The store *)

SinTabla == [hay |-> FALSE, cols |-> {}, filas |-> <<>>]
Tabla(cols, filas) == [hay |-> TRUE, cols |-> cols, filas |-> filas]

Columna(filas, c) == [i \in DOMAIN filas |-> filas[i][c]]

(* pd.read_csv: a field without a name in the header line is named
   "Unnamed: <position>"; a column whose fields are all numbers or empty is
   numeric (empty is NaN), any other column holds the texts (empty is NaN). *)
NombreColumna(header, j) ==
    IF header[j] = "" THEN "Unnamed: " \o ToString(j - 1) ELSE header[j]

read_csv(a) ==
    LET h == a.header
        cols == {NombreColumna(h, j) : j \in DOMAIN h}
        (* the field of line i under column c; the unnamed first field of a
           line is its number *)
        texto(i, c) == IF c \in Rango(h) THEN a.lineas[i][c] ELSE ToString(i - 1)
        numerica(c) == \A i \in DOMAIN a.lineas :
                           texto(i, c) = "" \/ EsNumero(texto(i, c))
        celda(i, c) == IF texto(i, c) = "" THEN NaN
                       ELSE IF numerica(c) THEN Num(ParseNum(texto(i, c)))
                       ELSE Str(texto(i, c))
    IN  Tabla(cols, [i \in DOMAIN a.lineas |-> [c \in cols |-> celda(i, c)]])

(* Series.dt.day_name() on the dates that occur *)
day_name(c) ==
    CASE c = Fecha(2024, 1) -> Str("Monday")
      [] c = Fecha(2024, 2) -> Str("Saturday")
      [] c = Fecha(2024, 3) -> Str("Wednesday")
      [] OTHER -> Str("Sunday")

(* pd.to_datetime / pd.to_numeric with errors='coerce' on one cell *)
to_datetime(c) == IF c.t = "str" THEN ParseFecha(c.s) ELSE NaT

to_numeric(c) ==
    IF c.t = "num" THEN c
    ELSE IF c.t = "str" /\ EsNumero(c.s) THEN Num(ParseNum(c.s))
    ELSE NaN

ColumnasLimpieza ==
    {"fecha_ocurr", "fecha_nac", "lat_decimal", "lon_decimal", "edad_anos",
     "pob_total", "anio_ocur"}

ColumnasIndices ==
    {"clave_entidad", "nom_ent", "clave_municipio", "nom_mun", "pob_total",
     "lat_decimal", "lon_decimal"}

(* _limpiar_datos: the table it returns; defined when the columns exist. *)
_limpiar_datos(t) ==
    LET conv(f) == [c \in t.cols |->
                      CASE c \in {"fecha_ocurr", "fecha_nac"} -> to_datetime(f[c])
                        [] c \in {"lat_decimal", "lon_decimal", "edad_anos",
                                  "pob_total"} -> to_numeric(f[c])
                        [] OTHER -> f[c]]
        convertidas == [i \in DOMAIN t.filas |-> conv(t.filas[i])]
        validas == SelectSeq(convertidas,
                       LAMBDA f : f["fecha_ocurr"].t = "fecha"
                                  /\ f["anio_ocur"] = Num(2024))
        cols2 == t.cols \cup {"mes_ocurr", "dia_semana", "semana_ano"}
        calc(f) == [c \in cols2 |->
                      CASE c = "mes_ocurr" -> Num(f["fecha_ocurr"].n % 100)
                        [] c = "dia_semana" -> day_name(f["fecha_ocurr"])
                        [] c = "semana_ano" -> Num(f["fecha_ocurr"].n % 100)
                        [] OTHER -> f[c]]
    IN  Tabla(cols2, [i \in DOMAIN validas |-> calc(validas[i])])

(* pandas max with skipna: NaN when there is no number *)
MaxPob(filas) ==
    LET ns == {filas[i]["pob_total"].n :
                  i \in {k \in DOMAIN filas : filas[k]["pob_total"].t = "num"}}
    IN  IF ns = {} THEN NaN ELSE Num(Max(ns))

FilasDe(filas, c, v) == SelectSeq(filas, LAMBDA f : f[c] = v)

(* _crear_indices: groupby(...).agg(...).to_dict('index') *)
IndiceEntidades(t) ==
    LET claves == {t.filas[i]["clave_entidad"] : i \in DOMAIN t.filas}
    IN  [k \in {x \in claves : ~EsNulo(x)} |->
            LET g == FilasDe(t.filas, "clave_entidad", k)
            IN  [nom_ent |-> g[1]["nom_ent"], pob_total |-> MaxPob(g)]]

IndiceMunicipios(t) ==
    LET claves == {<<t.filas[i]["clave_entidad"], t.filas[i]["clave_municipio"]>> :
                      i \in DOMAIN t.filas}
    IN  [k \in {x \in claves : ~EsNulo(x[1]) /\ ~EsNulo(x[2])} |->
            LET g == SelectSeq(t.filas,
                         LAMBDA f : f["clave_entidad"] = k[1]
                                    /\ f["clave_municipio"] = k[2])
            IN  [nom_ent |-> g[1]["nom_ent"], pob_total |-> MaxPob(g),
                 nom_mun |-> g[1]["nom_mun"]]]

(* no response yet: none was sent, or the request being served is loading *)
SinRespuesta ==
    [op |-> "ninguna", arg |-> <<>>, status |-> 0, detalle |-> "", cuerpo |-> <<>>]

SinCarga == [paso |-> "no", origen |-> "no"]

Init ==
    /\ df = SinTabla
    /\ entidades_info = <<>>
    /\ municipios_info = <<>>
    /\ fase = "arranque"
    /\ carga = SinCarga
    /\ resp = SinRespuesta

(* cargar_datos, line 165: self.df = pd.read_csv(archivo_csv).  An unreadable
   file raises: the except clause returns False and nothing was assigned. *)
CargarLeer(origen, a) ==
    /\ fase' = IF origen = "startup" /\ a.legible THEN "arranque" ELSE "sirviendo"
    /\ IF a.legible
       THEN /\ df' = read_csv(a)
            /\ carga' = [paso |-> "leido", origen |-> origen]
       ELSE /\ df' = df
            /\ carga' = SinCarga
    /\ resp' = SinRespuesta
    /\ UNCHANGED <<entidades_info, municipios_info>>

(* cargar_datos, line 168: self.df = self._limpiar_datos(self.df).  A missing
   column raises KeyError inside _limpiar_datos: cargar_datos returns False
   and self.df keeps the table read_csv returned.  The response on show was
   computed on the table that is replaced: every step of a load clears it. *)
CargarLimpiar ==
    /\ carga.paso = "leido"
    /\ IF ColumnasLimpieza \subseteq df.cols
       THEN /\ df' = _limpiar_datos(df)
            /\ carga' = [carga EXCEPT !.paso = "limpio"]
            /\ fase' = fase
       ELSE /\ df' = df
            /\ carga' = SinCarga
            /\ fase' = "sirviendo"
    /\ resp' = SinRespuesta
    /\ UNCHANGED <<entidades_info, municipios_info>>

(* cargar_datos, line 171: self._crear_indices(); then return True. *)
CargarIndices ==
    /\ carga.paso = "limpio"
    /\ IF ColumnasIndices \subseteq df.cols
       THEN /\ entidades_info' = IndiceEntidades(df)
            /\ municipios_info' = IndiceMunicipios(df)
       ELSE UNCHANGED <<entidades_info, municipios_info>>
    /\ carga' = SinCarga
    /\ fase' = "sirviendo"
    /\ resp' = SinRespuesta
    /\ UNCHANGED df

(* startup_event: the application serves no request before it returns. *)
startup_event ==
    /\ fase = "arranque" /\ carga.paso = "no"
    /\ \E a \in Archivos : CargarLeer("startup", a)

get_data_siempre ==
    /\ fase = "sirviendo" /\ carga.paso = "no"
    /\ \E a \in Archivos : CargarLeer("get_data", a)

(* get_data: a request that finds processor.df None calls cargar_datos. *)
get_data ==
    /\ fase = "sirviendo" /\ carga.paso = "no" /\ ~df.hay
    /\ \E a \in Archivos : CargarLeer("get_data", a)

----------------------------------------------------------------------------
(* Responses *)

Http(op, arg, status, detalle, cuerpo) ==
    [op |-> op, arg |-> arg, status |-> status, detalle |-> detalle,
     cuerpo |-> cuerpo]

NoHayDatos(op, arg) == Http(op, <<>>, 404, "No hay datos disponibles", <<>>)

(* general_exception_handler: any exception that is not an HTTPException *)
ErrorInterno(op, arg) == Http(op, arg, 500, "Error interno del servidor", <<>>)

(* Requests are served once the startup event has returned.  get_data is a
   synchronous dependency and runs in a worker thread: while the cargar_datos
   it called is between two of its assignments, the handlers of other
   requests run on the event loop; their own get_data finds processor.df
   assigned and returns at once. *)
Atiende == fase = "sirviendo"

----------------------------------------------------------------------------
(* Arithmetic of the handlers, on cells *)

(* (total / poblacion * 100000).round(2), in hundredths: a Series division,
   so a zero population gives inf (NaN for 0/0) and a missing one NaN. *)
TasaPor100k(total, pob) ==
    IF pob.t # "num" THEN NaN
    ELSE IF pob.n = 0 THEN (IF total = 0 THEN NaN ELSE Inf)
    ELSE Num(RoundHalfEven(total * 10000000, pob.n))

(* (tasa * w1 + total / maxTotal * 100 * w2).round(2), in hundredths, the
   weights in tenths *)
IndiceViolencia(tasa, total, maxTotal, w1, w2) ==
    IF tasa.t = "nan" \/ maxTotal = 0 THEN NaN
    ELSE IF tasa.t = "inf" THEN Inf
    ELSE Num(RoundHalfEven(w1 * tasa.n * maxTotal + w2 * total * 10000,
                           10 * maxTotal))

(* The five labels of clasificar_riesgo.  In the source each is preceded by
   an emoji and a blank, and CRITICO carries an accent. *)
EtiquetasRiesgo == <<"CRITICO", "ALTO", "MEDIO", "BAJO", "MUY BAJO">>

(* clasificar_riesgo(indice): indice is NaN, Inf or a number of thousandths.
   Every comparison with NaN is false. *)
clasificar_riesgo_estricto(indice) ==
    IF indice.t = "inf" \/ (indice.t = "num" /\ indice.n > 80000)
    THEN EtiquetasRiesgo[1]
    ELSE IF indice.t = "num" /\ indice.n > 60000 THEN EtiquetasRiesgo[2]
    ELSE IF indice.t = "num" /\ indice.n > 40000 THEN EtiquetasRiesgo[3]
    ELSE IF indice.t = "num" /\ indice.n > 20000 THEN EtiquetasRiesgo[4]
    ELSE EtiquetasRiesgo[5]

clasificar_riesgo_sin_dato(indice) ==
    IF indice.t = "inf" \/ (indice.t = "num" /\ indice.n >= 80000)
    THEN EtiquetasRiesgo[1]
    ELSE IF indice.t = "num" /\ indice.n >= 60000 THEN EtiquetasRiesgo[2]
    ELSE IF indice.t = "num" /\ indice.n >= 40000 THEN EtiquetasRiesgo[3]
    ELSE IF indice.t = "num" /\ indice.n >= 20000 THEN EtiquetasRiesgo[4]
    ELSE IF indice.t = "num" /\ indice.n >= 1000 THEN EtiquetasRiesgo[5]
    ELSE "SIN DATO"

clasificar_riesgo(indice) ==
    IF indice.t = "inf" \/ (indice.t = "num" /\ indice.n >= 80000)
    THEN EtiquetasRiesgo[1]
    ELSE IF indice.t = "num" /\ indice.n >= 60000 THEN EtiquetasRiesgo[2]
    ELSE IF indice.t = "num" /\ indice.n >= 40000 THEN EtiquetasRiesgo[3]
    ELSE IF indice.t = "num" /\ indice.n >= 20000 THEN EtiquetasRiesgo[4]
    ELSE EtiquetasRiesgo[5]

(* a value in hundredths as a value in thousandths *)
EnMilesimas(c) == IF c.t = "num" THEN Num(c.n * 10) ELSE c

----------------------------------------------------------------------------
(* groupby, value_counts, rank and sort *)

(* the order of the codes that occur, as Python compares the strings *)
OrdenClaves == <<"2", "A", "B", "M1", "M2", "M3", "R1", "R2", "R3">>

Pos(c) ==
    IF c.t = "str" THEN CHOOSE i \in DOMAIN OrdenClaves : OrdenClaves[i] = c.s
    ELSE c.n

RECURSIVE LexMenor(_, _)
LexMenor(a, b) ==
    /\ a # <<>>
    /\ \/ Pos(a[1]) < Pos(b[1])
       \/ a[1] = b[1] /\ LexMenor(Tail(a), Tail(b))

Perms(S) ==
    {p \in [1..Cardinality(S) -> S] : \A i, j \in DOMAIN p : i # j => p[i] # p[j]}

(* df.groupby(cs): one group per key without a null, the keys ascending *)
Agrupar(filas, cs) ==
    LET key(f) == [j \in DOMAIN cs |-> f[cs[j]]]
        K == {k \in {key(filas[i]) : i \in DOMAIN filas} :
                 \A j \in DOMAIN k : ~EsNulo(k[j])}
        ks == CHOOSE p \in Perms(K) :
                 \A i, j \in DOMAIN p : i < j => LexMenor(p[i], p[j])
    IN  [i \in DOMAIN ks |->
            [filas |-> SelectSeq(filas, LAMBDA f : key(f) = ks[i]),
             clave |-> ks[i]]]

(* the 'count' aggregation of a column: its cells that are not null *)
Count(filas, c) == Cardinality({i \in DOMAIN filas : ~EsNulo(filas[i][c])})

(* x.value_counts().head(n).to_dict() of column c: the values by count
   descending.  value_counts sorts with the default, unstable sort, so the
   order of two values of equal count is whatever that sort leaves: pref,
   a permutation of the values, stands for it. *)
ValueCountsHead(filas, c, n, pref) ==
    LET vals == {filas[i][c] : i \in {k \in DOMAIN filas : ~EsNulo(filas[k][c])}}
        cnt(v) == Cardinality({i \in DOMAIN filas : filas[i][c] = v})
        pp(v) == CHOOSE i \in DOMAIN pref : pref[i] = v
        antes(v, w) == cnt(v) > cnt(w) \/ (cnt(v) = cnt(w) /\ pp(v) < pp(w))
        ord == CHOOSE p \in Perms(vals) :
                  \A i, j \in DOMAIN p : i < j => antes(p[i], p[j])
    IN  [i \in 1..(IF Cardinality(vals) < n THEN Cardinality(vals) ELSE n) |->
            <<ord[i], cnt(ord[i])>>]

Valores(filas, c) == {filas[i][c] : i \in DOMAIN filas} \ {NaN}

(* order of two float cells: NaN compares with nothing *)
Menor(a, b) ==
    \/ a.t = "num" /\ b.t = "num" /\ a.n < b.n
    \/ a.t = "num" /\ b.t = "inf"

(* Series.rank(pct=True).round(2) * 100: the average rank of the value among
   the values that are not NaN, over their number; NaN stays NaN. *)
RankPct(vs, i) ==
    IF vs[i].t = "nan" THEN NaN
    ELSE LET n == Cardinality({k \in DOMAIN vs : vs[k].t # "nan"})
             menores == Cardinality({k \in DOMAIN vs : Menor(vs[k], vs[i])})
             iguales == Cardinality({k \in DOMAIN vs : vs[k] = vs[i]})
         IN  Num(RoundHalfEven((2 * menores + iguales + 1) * 100, 2 * n))

(* The positions of vs in descending order, NaN last.  pref, a permutation
   of the positions, decides between equal values. *)
OrdenDesc(vs, pref) ==
    LET pp(i) == CHOOSE k \in DOMAIN pref : pref[k] = i
        antes(a, b, i, j) ==
            \/ Menor(b, a)
            \/ a.t # "nan" /\ b.t = "nan"
            \/ ~Menor(a, b) /\ (a.t = "nan") = (b.t = "nan") /\ pp(i) < pp(j)
    IN  CHOOSE p \in Perms(DOMAIN vs) :
            \A i, j \in DOMAIN p : i < j => antes(vs[p[i]], vs[p[j]], p[i], p[j])

Reordenar(rows, ord) == [i \in DOMAIN ord |-> rows[ord[i]]]

(* sort_values(campo, ascending=False): descending, NaN last; the default
   sort is not stable, so the order it leaves among equal values is any. *)
SortDesc(rows, campo, pref) ==
    Reordenar(rows, OrdenDesc([i \in DOMAIN rows |-> rows[i][campo]], pref))

Identidad(n) == [i \in 1..n |-> i]

Head_(s, n) == SubSeq(s, 1, IF Len(s) < n THEN Len(s) ELSE n)

(* json.dumps(allow_nan=False) of the response raises on NaN and inf *)
Finito(c) == c.t \notin {"nan", "inf"}

----------------------------------------------------------------------------
(* Query handlers.  Each takes the table it read from processor.df and gives
   the set of responses it may send (one, unless an unstable sort decides). *)

ColumnasEntidad == <<"clave_entidad", "nom_ent">>
ColumnasMunicipio == <<"clave_municipio", "nom_mun", "nom_ent">>

(* The aggregation maps of the handlers name the column '' for the count of
   cases.  DataFrameGroupBy.agg raises KeyError for a column the table does
   not have, and read_csv never names a column ''. *)
AggPosible(t, cs, agg) == Rango(cs) \subseteq t.cols /\ agg \subseteq t.cols

Totales(gs) == [i \in DOMAIN gs |-> Count(gs[i].filas, "")]

MaxTotal(tot) == IF tot = <<>> THEN 0 ELSE Max(Rango(tot))

(* lista_entidades, lines 329-345 (lat_promedio and lon_promedio left out) *)
RespuestasListaEntidades(t) ==
    LET op == "lista_entidades"
        gs == Agrupar(t.filas, ColumnasEntidad)
        tot == Totales(gs)
        rows == [i \in DOMAIN gs |->
                    [clave_entidad |-> gs[i].clave[1],
                     nombre_entidad |-> gs[i].clave[2],
                     total_casos |-> tot[i],
                     poblacion |-> MaxPob(gs[i].filas),
                     tasa_por_100k |-> TasaPor100k(tot[i], MaxPob(gs[i].filas))]]
        res(pref) == SortDesc(rows, "tasa_por_100k", pref)
    IN  IF ~t.hay THEN {NoHayDatos(op, <<>>)}
        ELSE IF ~AggPosible(t, ColumnasEntidad,
                            {"", "pob_total", "lat_decimal", "lon_decimal"})
        THEN {ErrorInterno(op, <<>>)}
        ELSE {IF \E i \in DOMAIN rows :
                    ~Finito(rows[i].poblacion) \/ ~Finito(rows[i].tasa_por_100k)
              THEN ErrorInterno(op, <<>>)
              ELSE Http(op, <<>>, 200, "", res(pref)) :
                 pref \in Perms(DOMAIN rows)}

(* the rows of indices_violencia (w = <<6, 4>>, lines 746-793) and of
   zonas_calientes (w = <<4, 6>>, lines 517-534), before they are ordered.
   entidad is the nom_ent of the group key (the column of that name when the
   groups are municipios). *)
FilasIndice(t, cs, w, prefC) ==
    LET gs == Agrupar(t.filas, cs)
        tot == Totales(gs)
        tasa == [i \in DOMAIN gs |-> TasaPor100k(tot[i], MaxPob(gs[i].filas))]
        ind == [i \in DOMAIN gs |->
                   IndiceViolencia(tasa[i], tot[i], MaxTotal(tot), w[1], w[2])]
    IN  [i \in DOMAIN gs |->
            [clave |-> gs[i].clave[1],
             total_casos |-> tot[i],
             poblacion |-> MaxPob(gs[i].filas),
             tasa_por_100k |-> tasa[i],
             nombre |-> gs[i].clave[2],
             entidad |-> gs[i].clave[Len(cs)],
             causas_principales |->
                 ValueCountsHead(gs[i].filas, "causa_def_cat", 3, prefC),
             indice_violencia |-> ind[i],
             percentil_nacional |-> RankPct(ind, i),
             categoria_riesgo |-> clasificar_riesgo(EnMilesimas(ind[i]))]]

FilaFinita(r) ==
    Finito(r.poblacion) /\ Finito(r.tasa_por_100k) /\ Finito(r.indice_violencia)

(* indices_violencia, lines 735-817.  The resumen holds the mean and the
   median of every index: NaN when no index is a number, inf when one is. *)
RespuestasIndices(t, tipo, limite) ==
    LET op == "indices_violencia"
        arg == <<tipo, limite>>
        cs == IF tipo = "entidad" THEN ColumnasEntidad ELSE ColumnasMunicipio
        res(prefC, prefF) ==
            LET rows == FilasIndice(t, cs, <<6, 4>>, prefC)
                top == Head_(SortDesc(rows, "indice_violencia", prefF), limite)
            IN  IF \/ \E i \in DOMAIN top : ~FilaFinita(top[i])
                   \/ \A i \in DOMAIN rows : rows[i].indice_violencia.t # "num"
                   \/ \E i \in DOMAIN rows : rows[i].indice_violencia.t = "inf"
                THEN ErrorInterno(op, arg)
                ELSE Http(op, arg, 200, "",
                          [total_regiones_analizadas |-> Len(rows),
                           top_regiones |-> top])
    IN  IF ~t.hay THEN {NoHayDatos(op, arg)}
        ELSE IF ~AggPosible(t, cs, {"", "pob_total", "sexo_cat",
                                    "causa_def_cat", "lugar_ocur_cat"})
        THEN {ErrorInterno(op, arg)}
        ELSE {res(prefC, prefF) :
                 prefC \in Perms(Valores(t.filas, "causa_def_cat")),
                 prefF \in Perms(1..Len(Agrupar(t.filas, cs)))}

(* zonas_calientes, lines 506-539.  nlargest keeps the first of equal values,
   so the rows keep their group order among equal indices. *)
RespuestasZonas(t, limite) ==
    LET op == "zonas_calientes"
        arg == <<limite>>
        res(prefC) ==
            LET rows == FilasIndice(t, ColumnasMunicipio, <<4, 6>>, prefC)
                top == Head_(SortDesc(rows, "indice_violencia",
                                      Identidad(Len(rows))), limite)
            IN  IF \E i \in DOMAIN top : ~FilaFinita(top[i])
                THEN ErrorInterno(op, arg)
                ELSE Http(op, arg, 200, "",
                          [i \in DOMAIN top |->
                              [total_casos |-> top[i].total_casos,
                               poblacion |-> top[i].poblacion,
                               tasa_por_100k |-> top[i].tasa_por_100k,
                               entidad |-> top[i].entidad,
                               causas_principales |-> top[i].causas_principales,
                               indice_violencia |-> top[i].indice_violencia,
                               clave_municipio |-> top[i].clave,
                               nombre_municipio |-> top[i].nombre]])
    IN  IF ~t.hay THEN {NoHayDatos(op, arg)}
        ELSE IF ~AggPosible(t, ColumnasMunicipio,
                            {"", "pob_total", "lat_decimal", "lon_decimal",
                             "causa_def_cat"})
        THEN {ErrorInterno(op, arg)}
        ELSE {res(prefC) : prefC \in Perms(Valores(t.filas, "causa_def_cat"))}

(* comparar_entidades, lines 884-957: entidades is the list of codes that
   split(',') gives. *)
Seleccion(t, entidades) ==
    SelectSeq(t.filas,
        LAMBDA f : f["clave_entidad"] \in {Str(e) : e \in Rango(entidades)})

ValorMetrica(r, metrica) ==
    CASE metrica = "total" -> Num(r.total_casos)
      [] metrica = "indice" -> r.indice_violencia
      [] OTHER -> r.tasa_por_100k

Ranking(rows, ord) == [i \in DOMAIN ord |-> [ranking |-> i, fila |-> rows[ord[i]]]]

FilasComparar(rows, metrica, pref) ==
    Ranking(rows, OrdenDesc([i \in DOMAIN rows |-> ValorMetrica(rows[i], metrica)],
                            pref))

RECURSIVE Suma(_)
Suma(ns) == IF ns = <<>> THEN 0 ELSE Head(ns) + Suma(Tail(ns))

(* lines 933-944, for rows whose values are numbers: promedio is
   Suma(vs) / Len(vs), the percentages are in tenths and the factor in
   hundredths.  x / promedio with promedio = 0.0 is a numpy division, NaN. *)
Contexto(vs, i, total_casos, registros) ==
    [porcentaje_del_total |-> Num(RoundHalfEven(total_casos * 1000, registros)),
     vs_promedio |->
         IF Suma(vs) = 0 THEN NaN
         ELSE Num(RoundHalfEven((vs[i] * Len(vs) - Suma(vs)) * 1000, Suma(vs))),
     factor_vs_maximo |->
         IF Max(Rango(vs)) > 0 THEN Num(RoundHalfEven(vs[i] * 100, Max(Rango(vs))))
         ELSE Num(0)]

(* lines 946-957: the JSON response refuses a NaN or an inf *)
SiFinitas(op, arg, rows, metrica, registros) ==
    IF \E i \in DOMAIN rows : ~FilaFinita(rows[i].fila)
    THEN ErrorInterno(op, arg)
    ELSE LET vs == [i \in DOMAIN rows |-> ValorMetrica(rows[i].fila, metrica).n]
             ctx == [i \in DOMAIN rows |->
                        Contexto(vs, i, rows[i].fila.total_casos, registros)]
         IN  IF \E i \in DOMAIN rows : ~Finito(ctx[i].vs_promedio)
             THEN ErrorInterno(op, arg)
             ELSE Http(op, arg, 200, "",
                       [i \in DOMAIN rows |->
                           [ranking |-> rows[i].ranking, fila |-> rows[i].fila,
                            contexto |-> ctx[i]]])

RespuestasComparar(t, entidades, metrica) ==
    LET op == "comparar_entidades"
        arg == <<entidades, metrica>>
    IN  IF ~t.hay THEN {NoHayDatos(op, arg)}
        ELSE IF "clave_entidad" \notin t.cols THEN {ErrorInterno(op, arg)}
        ELSE IF Seleccion(t, entidades) = <<>>
        THEN {Http(op, arg, 404,
                   "No se encontraron datos para las entidades especificadas",
                   <<>>)}
        ELSE IF ~AggPosible(t, ColumnasEntidad,
                            {"", "pob_total", "sexo_cat", "edad_cat",
                             "causa_def_cat"})
        THEN {ErrorInterno(op, arg)}
        ELSE {SiFinitas(op, arg,
                  FilasComparar(
                      FilasIndice(Tabla(t.cols, Seleccion(t, entidades)),
                                  ColumnasEntidad, <<6, 4>>, prefC),
                      metrica, prefF),
                  metrica, Len(Seleccion(t, entidades))) :
                 prefC \in Perms(Valores(Seleccion(t, entidades), "causa_def_cat")),
                 prefF \in Perms(1..Len(Agrupar(Seleccion(t, entidades),
                                                ColumnasEntidad)))}

(* generar_reporte with tipo = "ejecutivo", lines 1238-1267; entidad "" is
   the absent parameter.  On a table whose pob_total column holds texts (a
   table that was read and not cleaned) max() or the comparison with 0
   raises TypeError. *)
RespuestasReporte(t, tipo, entidad) ==
    LET op == "generar_reporte"
        arg == <<tipo, entidad>>
        sel == IF entidad # "" THEN FilasDe(t.filas, "clave_entidad", Str(entidad))
               ELSE t.filas
        total == Len(sel)
        pmax == MaxPob(sel)
        hayPob == pmax.t = "num" /\ pmax.n > 0
        tasa == IF hayPob THEN Num(RoundHalfEven(total * 10000000, pmax.n))
                ELSE Num(0)
        situacion == IF hayPob /\ total * 100000 > 50 * pmax.n THEN "Critica"
                     ELSE IF hayPob /\ total * 100000 > 20 * pmax.n THEN "Moderada"
                     ELSE "Controlada"
    IN  IF ~t.hay THEN {NoHayDatos(op, arg)}
        ELSE IF ~({"clave_entidad", "pob_total"} \subseteq t.cols)
        THEN {ErrorInterno(op, arg)}
        ELSE IF \E i \in DOMAIN sel : sel[i]["pob_total"].t = "str"
        THEN {ErrorInterno(op, arg)}
        ELSE {Http(op, arg, 200, "",
                   [total_casos |-> total,
                    situacion_general |-> situacion,
                    entidades_afectadas |->
                        Cardinality(Valores(sel, "clave_entidad")),
                    tasa_nacional_aproximada |-> tasa])}

(* estadisticas_generales, lines 267-319: the only handler that also tests
   len(data.df) == 0.  A column that is missing raises KeyError. *)
RespuestasEstadisticas(t) ==
    LET op == "estadisticas_generales"
    IN  IF ~t.hay \/ t.filas = <<>> THEN {NoHayDatos(op, <<>>)}
        ELSE IF ~({"clave_entidad", "clave_municipio", "sexo_cat", "edad_cat",
                   "causa_def_cat", "lugar_ocur_cat", "area_ur", "mes_ocurr",
                   "fecha_ocurr", "nom_ent", "nom_mun"} \subseteq t.cols)
        THEN {ErrorInterno(op, <<>>)}
        ELSE {Http(op, <<>>, 200, "",
                   [total_casos |-> Len(t.filas),
                    entidades_afectadas |->
                        Cardinality(Valores(t.filas, "clave_entidad")),
                    municipios_afectados |->
                        Cardinality(Valores(t.filas, "clave_municipio"))])}

SinCoincidencias ==
    "No se encontraron datos para los filtros especificados"

(* the records a handler keeps: df[df[c] == v] for each parameter given *)
Filtrar(filas, entidad, municipio) ==
    SelectSeq(filas,
        LAMBDA f : /\ entidad # "" => f["clave_entidad"] = Str(entidad)
                   /\ municipio # "" => f["clave_municipio"] = Str(municipio))

(* perfil_demografico, lines 352-435.  Series.std() of a single value is NaN
   (ddof = 1), round() keeps it, and the JSON response refuses NaN: the
   request ends in general_exception_handler. *)
RespuestasPerfil(t, entidad, municipio) ==
    LET op == "perfil_demografico"
        arg == <<entidad, municipio>>
        sel == Filtrar(t.filas, entidad, municipio)
        edades == Count(sel, "edad_anos")
    IN  IF ~t.hay THEN {NoHayDatos(op, arg)}
        ELSE IF ~({"clave_entidad", "clave_municipio"} \subseteq t.cols)
        THEN {ErrorInterno(op, arg)}
        ELSE IF sel = <<>> THEN {Http(op, arg, 404, SinCoincidencias, <<>>)}
        ELSE IF ~({"sexo_cat", "edad_cat", "edad_anos", "causa_def_cat",
                   "lugar_ocur_cat", "afromex", "conindig", "nom_ent",
                   "nom_mun"} \subseteq t.cols)
        THEN {ErrorInterno(op, arg)}
        ELSE IF edades = 1 \/ \E i \in DOMAIN sel : sel[i]["edad_anos"].t = "str"
        THEN {ErrorInterno(op, arg)}
        ELSE {Http(op, arg, 200, "",
                   [entidad |-> IF entidad # "" THEN sel[1]["nom_ent"]
                                ELSE Str("Nacional"),
                    porcentaje_del_total |->
                        Num(RoundHalfEven(Len(sel) * 10000, Len(t.filas))),
                    municipio |-> IF municipio # "" THEN sel[1]["nom_mun"]
                                  ELSE Nulo,
                    total_casos_analizados |-> Len(sel)])}

(* patrones_temporales, lines 660-728.  On a table without records
   casos / len(df) raises ZeroDivisionError; when every record is of the
   same day of the week dias_ordenados.std() is NaN and the JSON response
   refuses it. *)
RespuestasPatrones(t) ==
    LET op == "patrones_temporales"
        enMeses(ms) == Len(SelectSeq(t.filas, LAMBDA f : f["mes_ocurr"].n \in ms))
    IN  IF ~t.hay THEN {NoHayDatos(op, <<>>)}
        ELSE IF ~({"dia_semana", "mes_ocurr"} \subseteq t.cols)
        THEN {ErrorInterno(op, <<>>)}
        ELSE IF t.filas = <<>> THEN {ErrorInterno(op, <<>>)}
        ELSE IF Cardinality(Valores(t.filas, "dia_semana")) = 1
        THEN {ErrorInterno(op, <<>>)}
        ELSE {Http(op, <<>>, 200, "",
                   [por_trimestre |->
                       <<enMeses(1..3), enMeses(4..6), enMeses(7..9),
                         enMeses(10..12)>>])}

(* exportar_datos with formato = "json", lines 1183-1235; entidad "" is the
   absent parameter.  filtros is the parsed JSON object, of at most one
   field: campo "" is the absent parameter, lista tells whether the value of
   the field is a list (a field whose value is not one is skipped, line
   1204).  A text that is not JSON (400) is not modelled.
   df[columnas_export] raises KeyError when a column is missing; a NaN among
   the exported numbers is refused by the JSON response. *)
SinFiltros == [campo |-> "", lista |-> FALSE, valores |-> {}]

AplicarFiltros(t, filas, filtros) ==
    IF filtros.campo \in t.cols /\ filtros.lista
    THEN SelectSeq(filas, LAMBDA f : f[filtros.campo] \in filtros.valores)
    ELSE filas

columnas_export ==
    {"fecha_ocurr", "nom_ent", "nom_mun", "nom_loc", "sexo_cat", "edad_cat",
     "edad_anos", "causa_def_cat", "lugar_ocur_cat", "area_ur", "lat_decimal",
     "lon_decimal"}

RespuestasExportar(t, entidad, filtros) ==
    LET op == "exportar_datos"
        arg == <<entidad, filtros>>
        sel == AplicarFiltros(t, Filtrar(t.filas, entidad, ""), filtros)
    IN  IF ~t.hay THEN {NoHayDatos(op, arg)}
        ELSE IF ~(columnas_export \cup {"clave_entidad"} \subseteq t.cols)
        THEN {ErrorInterno(op, arg)}
        ELSE IF \E i \in DOMAIN sel : \E c \in columnas_export : sel[i][c] = NaN
        THEN {ErrorInterno(op, arg)}
        ELSE {Http(op, arg, 200, "",
                   [total_registros |-> Len(sel),
                    datos |-> [i \in DOMAIN sel |->
                                  [c \in columnas_export |-> sel[i][c]]]])}

(* mapa_calor_geografico, lines 443-502.  The records are grouped by the code
   and the name of the region (of the municipality, with the name of its
   region) and by their coordinates; the rate of line 474 is a Series
   division (inf or NaN on a population of 0 or NaN), and the JSON response
   refuses a NaN or an inf among valor and poblacion.  sort_values is the
   unstable default; with metrica = "casos_por_sexo" the rows are returned
   in the order of the groups. *)
ColumnasMapa(tipo) ==
    (IF tipo = "entidad" THEN ColumnasEntidad ELSE ColumnasMunicipio)
        \o <<"lat_decimal", "lon_decimal">>

RespuestasMapa(t, tipo, metrica) ==
    LET op == "mapa_calor_geografico"
        arg == <<tipo, metrica>>
        cs == ColumnasMapa(tipo)
        gs == Agrupar(t.filas, cs)
        tot == Totales(gs)
        sexos(g) == [v \in Valores(g.filas, "sexo_cat") |->
                        Len(FilasDe(g.filas, "sexo_cat", v))]
        desglose == [i \in DOMAIN gs |->
                        [clave |-> gs[i].clave[1],
                         total_casos |-> tot[i],
                         poblacion |-> MaxPob(gs[i].filas),
                         nombre |-> gs[i].clave[2],
                         latitud |-> gs[i].clave[Len(cs) - 1],
                         casos_por_sexo |-> sexos(gs[i])]]
        rows == [i \in DOMAIN gs |->
                    [clave |-> gs[i].clave[1],
                     total_casos |-> tot[i],
                     poblacion |-> MaxPob(gs[i].filas),
                     nombre |-> gs[i].clave[2],
                     latitud |-> gs[i].clave[Len(cs) - 1],
                     casos_por_sexo |-> sexos(gs[i]),
                     valor |-> IF metrica = "tasa"
                               THEN TasaPor100k(tot[i], MaxPob(gs[i].filas))
                               ELSE Num(tot[i])]]
    IN  IF ~t.hay THEN {NoHayDatos(op, arg)}
        ELSE IF ~AggPosible(t, cs, {"", "pob_total", "sexo_cat"})
        THEN {ErrorInterno(op, arg)}
        ELSE IF \E i \in DOMAIN rows : ~Finito(rows[i].poblacion)
        THEN {ErrorInterno(op, arg)}
        ELSE IF metrica = "casos_por_sexo"
        THEN {Http(op, arg, 200, "", [datos |-> desglose])}
        ELSE IF \E i \in DOMAIN rows : ~Finito(rows[i].valor)
        THEN {ErrorInterno(op, arg)}
        ELSE {Http(op, arg, 200, "", [datos |-> SortDesc(rows, "valor", pref)]) :
                 pref \in Perms(DOMAIN rows)}

(* tendencias_regionales, lines 960-1025.  The ratio of line 990 is a Series
   division: a month without records of the southern region gives inf, or
   NaN when the northern region has none either, and the JSON response
   refuses both. *)
Ratio(a, b) ==
    IF b = 0 THEN (IF a = 0 THEN NaN ELSE Inf)
    ELSE Num(RoundHalfEven(a * 100, b))

EnMes(filas, m) == Len(SelectSeq(filas, LAMBDA f : f["mes_ocurr"] = Num(m)))

RespuestasTendencias(t, region_norte, region_sur) ==
    LET op == "tendencias_regionales"
        arg == <<region_norte, region_sur>>
        fn == Filtrar(t.filas, region_norte, "")
        fs == Filtrar(t.filas, region_sur, "")
        mensual == [m \in 1..12 |->
                      [mes |-> m, norte |-> EnMes(fn, m), sur |-> EnMes(fs, m),
                       ratio |-> Ratio(EnMes(fn, m), EnMes(fs, m))]]
    IN  IF ~t.hay THEN {NoHayDatos(op, arg)}
        ELSE IF "clave_entidad" \notin t.cols THEN {ErrorInterno(op, arg)}
        ELSE IF fn = <<>> \/ fs = <<>>
        THEN {Http(op, arg, 404,
                   "No se encontraron datos para una o ambas regiones especificadas",
                   <<>>)}
        ELSE IF ~({"mes_ocurr", "pob_total", "nom_ent"} \subseteq t.cols)
        THEN {ErrorInterno(op, arg)}
        ELSE IF \/ \E m \in 1..12 : ~Finito(mensual[m].ratio)
                \/ ~Finito(TasaPor100k(Len(fn), MaxPob(fn)))
                \/ ~Finito(TasaPor100k(Len(fs), MaxPob(fs)))
        THEN {ErrorInterno(op, arg)}
        ELSE {Http(op, arg, 200, "", [analisis_mensual |-> mensual])}

(* analisis_tendencias, lines 545-657; entidad "" is the absent parameter.
   groupby('mes_ocurr') has one row per month that has records, in ascending
   order; pct_change compares each row with the row before it, whatever the
   months of the two are.  tendencia_general is written with one decimal
   (f"{x:+.1f}%"), here in tenths.  The standard deviation of a single
   month is NaN, which the JSON response refuses; on a table that was read
   and not cleaned the dates are texts and .dt raises AttributeError. *)
RECURSIVE Producto(_)
Producto(ns) == IF ns = <<>> THEN 1 ELSE Head(ns) * Producto(Tail(ns))

(* casos.pct_change() * 100, its mean over the rows after the first *)
TendenciaGeneral(casos) ==
    IF Len(casos) > 1
    THEN LET previos == SubSeq(casos, 1, Len(casos) - 1)
             d == Producto(previos)
             num == Suma([i \in DOMAIN previos |->
                            (casos[i + 1] - casos[i]) * 100 * (d \div casos[i])])
         IN  RoundHalfEven(num * 10, d * (Len(casos) - 1))
    ELSE 0

RespuestasTendenciasTemporales(t, periodo, entidad) ==
    LET op == "analisis_tendencias"
        arg == <<periodo, entidad>>
        sel == Filtrar(t.filas, entidad, "")
        clave == CASE periodo = "mensual" -> "mes_ocurr"
                   [] periodo = "diario" -> "fecha_ocurr"
                   [] OTHER -> "semana_ano"
        agg == IF periodo = "mensual" THEN {"", "causa_def_cat", "lugar_ocur_cat"}
               ELSE {""}
        gs == Agrupar(sel, <<clave>>)
        casos == Totales(gs)
    IN  IF ~t.hay THEN {NoHayDatos(op, arg)}
        ELSE IF entidad # "" /\ "clave_entidad" \notin t.cols
        THEN {ErrorInterno(op, arg)}
        ELSE IF sel = <<>> THEN {Http(op, arg, 404, SinCoincidencias, <<>>)}
        ELSE IF ~AggPosible(t, <<clave>>, agg) THEN {ErrorInterno(op, arg)}
        ELSE IF periodo = "diario"
                /\ \E i \in DOMAIN sel : sel[i]["fecha_ocurr"].t = "str"
        THEN {ErrorInterno(op, arg)}
        ELSE IF periodo = "mensual" /\ Len(gs) = 1 THEN {ErrorInterno(op, arg)}
        ELSE IF ~({"nom_ent", "fecha_ocurr"} \subseteq t.cols)
        THEN {ErrorInterno(op, arg)}
        ELSE {Http(op, arg, 200, "",
                   [periodo |-> periodo,
                    tendencia_general |->
                        IF periodo = "mensual" THEN Num(TendenciaGeneral(casos))
                        ELSE Nulo,
                    con_datos |-> Len(gs)])}

(* predicciones_tendencias, lines 1032-1109; entidad "" is the absent
   parameter.  casos is the series of line 1050, the records of each of the
   months 1..12 (0 where there is none); x is 0..11, so that the sum of x is
   66, the sum of x * x is 506 and 12 * 506 - 66 * 66 = 1716.  polyfit gives
   slope = PendienteNum / 1716 and intercept = InterceptoNum / 1716; the
   floating point error of polyfit is not modelled.  np.corrcoef of a
   constant series is NaN, which the JSON response refuses.
   intervalo_confianza is not modelled. *)
SumaMeses(f) == Suma([m \in 1..12 |-> f[m]])

PendienteNum(casos) ==
    12 * SumaMeses([m \in 1..12 |-> (m - 1) * casos[m]]) - 66 * SumaMeses(casos)

InterceptoNum(casos) ==
    506 * SumaMeses(casos) - 66 * SumaMeses([m \in 1..12 |-> (m - 1) * casos[m]])

VarianzaNum(casos) ==
    12 * SumaMeses([m \in 1..12 |-> casos[m] * casos[m]])
        - SumaMeses(casos) * SumaMeses(casos)

ValorPredichoSinPiso(casos, mes_futuro) ==
    PendienteNum(casos) * (mes_futuro - 1) + InterceptoNum(casos)

(* max(0, slope * (mes_futuro - 1) + intercept), in 1716ths *)
ValorPredicho(casos, mes_futuro) ==
    IF PendienteNum(casos) * (mes_futuro - 1) + InterceptoNum(casos) < 0 THEN 0
    ELSE PendienteNum(casos) * (mes_futuro - 1) + InterceptoNum(casos)

Prediccion(op, arg, casos, horizonte) ==
    IF Cardinality({m \in 1..12 : casos[m] > 0}) < 2
    THEN Http(op, arg, 400, "Datos insuficientes para prediccion", <<>>)
    ELSE IF VarianzaNum(casos) = 0 THEN ErrorInterno(op, arg)
    ELSE Http(op, arg, 200, "",
              [pendiente |-> Num(RoundHalfEven(PendienteNum(casos) * 10000, 1716)),
               intercepto |-> Num(RoundHalfEven(InterceptoNum(casos) * 100, 1716)),
               r_cuadrado |->
                   Num(RoundHalfEven(PendienteNum(casos) * PendienteNum(casos) * 1000,
                                     1716 * VarianzaNum(casos))),
               datos_historicos |-> casos,
               predicciones |->
                   [i \in 1..horizonte |->
                       [mes |-> 12 + i,
                        casos_predichos |->
                            RoundHalfEven(ValorPredicho(casos, 12 + i), 1716)]]])

RespuestasPredicciones(t, horizonte, entidad) ==
    LET op == "predicciones_tendencias"
        arg == <<horizonte, entidad>>
        sel == Filtrar(t.filas, entidad, "")
    IN  IF ~t.hay THEN {NoHayDatos(op, arg)}
        ELSE IF entidad # "" /\ "clave_entidad" \notin t.cols
        THEN {ErrorInterno(op, arg)}
        ELSE IF sel = <<>> THEN {Http(op, arg, 404, SinCoincidencias, <<>>)}
        ELSE IF "mes_ocurr" \notin t.cols THEN {ErrorInterno(op, arg)}
        ELSE IF entidad # "" /\ "nom_ent" \notin t.cols
                /\ Cardinality({m \in 1..12 : EnMes(sel, m) > 0}) >= 2
        THEN {ErrorInterno(op, arg)}
        ELSE {Prediccion(op, arg, [m \in 1..12 |-> EnMes(sel, m)], horizonte)}

----------------------------------------------------------------------------
(* Requests *)

Tipos == {"entidad", "municipio"}
Limites == 1..MaxLimite
Metricas == {"tasa", "total", "indice"}
ListasEntidades ==
    {<<"R1">>, <<"R1", "R2">>, <<"R9">>, <<"R1", "R9">>}
FiltrosEntidad == {"", "R2", "2", "R9"}
FiltrosMunicipio == {"", "M3"}
MetricasMapa == {"tasa", "total", "casos_por_sexo"}
FiltrosJson ==
    {SinFiltros,
     [campo |-> "causa_def_cat", lista |-> TRUE, valores |-> {Str("A")}],
     [campo |-> "causa_def_cat", lista |-> FALSE, valores |-> {Str("A")}]}
Horizontes == 1..MaxHorizonte
Periodos == {"mensual", "diario", "semanal"}
FiltrosTendencia == {"", "R1"}
(* the queries made: every metric by region and the rate by municipality;
   every period over all records and the monthly one of a region; every
   region filter without filtros, and filtros alone and with a region *)
ConsultasMapa ==
    {<<"entidad", m>> : m \in MetricasMapa} \cup {<<"municipio", "tasa">>}
ConsultasTendencia ==
    {<<p, "">> : p \in Periodos} \cup {<<"mensual", e>> : e \in FiltrosTendencia}
ConsultasExportar ==
    {<<e, SinFiltros>> : e \in FiltrosEntidad}
        \cup {<<"", f>> : f \in FiltrosJson}
        \cup {<<"R2", f>> : f \in {x \in FiltrosJson : x.lista}}
RegionesNorte == {"R1", "R9"}
RegionesSur == {"R2", "R9"}

(* The handlers are coroutines without an await: the event loop runs one to
   its end, and its response is sent, before it runs the next. *)
Responder(rs) ==
    /\ Atiende
    /\ resp = SinRespuesta
    /\ resp' \in rs
    /\ UNCHANGED <<df, entidades_info, municipios_info, fase, carga>>

Enviar ==
    /\ resp # SinRespuesta
    /\ resp' = SinRespuesta
    /\ UNCHANGED <<df, entidades_info, municipios_info, fase, carga>>

lista_entidades == Responder(RespuestasListaEntidades(df))

indices_violencia ==
    \E tipo \in Tipos, limite \in Limites :
        Responder(RespuestasIndices(df, tipo, limite))

mapa_calor_geografico ==
    \E q \in ConsultasMapa : Responder(RespuestasMapa(df, q[1], q[2]))

zonas_calientes == \E limite \in Limites : Responder(RespuestasZonas(df, limite))

comparar_entidades ==
    \E es \in ListasEntidades, metrica \in Metricas :
        Responder(RespuestasComparar(df, es, metrica))

generar_reporte ==
    \E entidad \in FiltrosEntidad :
        Responder(RespuestasReporte(df, "ejecutivo", entidad))

estadisticas_generales == Responder(RespuestasEstadisticas(df))

perfil_demografico ==
    \E entidad \in FiltrosEntidad, municipio \in FiltrosMunicipio :
        Responder(RespuestasPerfil(df, entidad, municipio))

patrones_temporales == Responder(RespuestasPatrones(df))

tendencias_regionales ==
    \E region_norte \in RegionesNorte, region_sur \in RegionesSur :
        Responder(RespuestasTendencias(df, region_norte, region_sur))

analisis_tendencias ==
    \E q \in ConsultasTendencia :
        Responder(RespuestasTendenciasTemporales(df, q[1], q[2]))

predicciones_tendencias ==
    \E horizonte \in Horizontes, entidad \in FiltrosTendencia :
        Responder(RespuestasPredicciones(df, horizonte, entidad))

exportar_datos ==
    \E q \in ConsultasExportar : Responder(RespuestasExportar(df, q[1], q[2]))

Next ==
    \/ startup_event
    \/ get_data
    \/ CargarLimpiar
    \/ CargarIndices
    \/ lista_entidades
    \/ indices_violencia
    \/ zonas_calientes
    \/ mapa_calor_geografico
    \/ comparar_entidades
    \/ generar_reporte
    \/ estadisticas_generales
    \/ perfil_demografico
    \/ patrones_temporales
    \/ exportar_datos
    \/ tendencias_regionales
    \/ analisis_tendencias
    \/ predicciones_tendencias
    \/ Enviar

Spec == Init /\ [][Next]_vars

----------------------------------------------------------------------------
(* clasificar_riesgo as a function of the index alone *)

IndicesRiesgo ==
    {Num(u * 1000 + f) : u \in 0..MaxIndice, f \in {0, 1, 500, 999}}
        \cup {NaN, Inf}

ClasificarRiesgo ==
    \E i \in IndicesRiesgo :
        /\ resp' = Http("clasificar_riesgo", i, 200, "", clasificar_riesgo(i))
        /\ UNCHANGED <<df, entidades_info, municipios_info, fase, carga>>

NextRiesgo == ClasificarRiesgo

SpecRiesgo == Init /\ [][NextRiesgo]_vars

----------------------------------------------------------------------------
(* cargar_datos as a function of the store it is called on and of the file *)

Almacen(t, e, m) == [df |-> t, entidades_info |-> e, municipios_info |-> m]

(* _crear_indices that would add the entries of the table to those of the
   earlier load *)
AsignarIndicesConserva(s, t) ==
    IF ~(ColumnasIndices \subseteq t.cols) THEN [s EXCEPT !.df = t]
    ELSE Almacen(t, IndiceEntidades(t) @@ s.entidades_info,
                 IndiceMunicipios(t) @@ s.municipios_info)

(* lines 170-171: _crear_indices on the cleaned table; df is already assigned
   when it raises *)
AsignarIndices(s, t) ==
    IF ~(ColumnasIndices \subseteq t.cols) THEN [s EXCEPT !.df = t]
    ELSE Almacen(t, IndiceEntidades(t), IndiceMunicipios(t))

(* lines 167-168: _limpiar_datos on the table that was read; the raw table
   stays in df when it raises *)
AsignarLimpia(s, raw) ==
    IF ~(ColumnasLimpieza \subseteq raw.cols) THEN [s EXCEPT !.df = raw]
    ELSE CHOOSE r \in {AsignarIndices(s, t) : t \in {_limpiar_datos(raw)}} : TRUE

cargar_datos_acumula(s, a) ==
    IF ~a.legible THEN s
    ELSE CHOOSE r \in {IF s.df.cols = u.df.cols
                        THEN AsignarIndices(s, Tabla(u.df.cols,
                                                     s.df.filas \o u.df.filas))
                        ELSE u : u \in {AsignarLimpia(s, read_csv(a))}} : TRUE

(* lines 161-178: each assignment that was made before an exception stays *)
cargar_datos(s, a) ==
    IF ~a.legible THEN s
    ELSE CHOOSE r \in {AsignarLimpia(s, raw) : raw \in {read_csv(a)}} : TRUE

(* lines 172-178: True after the three statements, False from the except
   clause *)
cargar_datos_retorno(a) ==
    /\ a.legible
    /\ ColumnasLimpieza \subseteq read_csv(a).cols
    /\ ColumnasIndices \subseteq read_csv(a).cols

ArchivosCarga == ArchivosHasta(MaxFilasCarga)

(* cargar_datos is called on a file, and then once more on the same file: the
   store is left as the first call left it, the response holds the store
   that the second call leaves. *)
CargarDosVeces ==
    \E a \in ArchivosCarga :
      \E s1 \in {cargar_datos(Almacen(df, entidades_info, municipios_info), a)} :
        \E s2 \in {cargar_datos(s1, a)} :
            /\ df' = s1.df
            /\ entidades_info' = s1.entidades_info
            /\ municipios_info' = s1.municipios_info
            /\ resp' = Http("cargar_datos", a, 200, "", s2)
            /\ fase' = "sirviendo"
            /\ carga' = SinCarga

NextCarga == CargarDosVeces

SpecCarga == Init /\ [][NextCarga]_vars

----------------------------------------------------------------------------
(* The forecast of predicciones_tendencias as a function of the monthly
   counts alone *)

(* the series of a selection that has records: the first MesesLibres months
   have any count, the others one same count *)
SeriesMensuales ==
    {casos \in
        {[m \in 1..12 |-> IF m <= MesesLibres THEN libres[m] ELSE resto] :
            libres \in [1..MesesLibres -> 0..MaxCasosMes],
            resto \in 0..MaxCasosMes} :
        SumaMeses(casos) > 0}

Predecir ==
    \E casos \in SeriesMensuales, horizonte \in Horizontes :
        /\ resp = SinRespuesta
        /\ resp' = Prediccion("prediccion", <<horizonte, casos>>, casos, horizonte)
        /\ UNCHANGED <<df, entidades_info, municipios_info, fase, carga>>

NextPrediccion == Predecir

SpecPrediccion == Init /\ [][NextPrediccion]_vars

----------------------------------------------------------------------------
(* What the claims speak of: the records of the published store *)

(* a store that a completed _limpiar_datos produced *)
Publicada == df.hay /\ "mes_ocurr" \in df.cols

(* the groups of a batch (all records, or those of the listed regions) with
   the number of records and the population of each *)
Lote(filas, cs) == Agrupar(filas, cs)

Casos(g) == Len(g.filas)

PobPositiva(g) == MaxPob(g.filas).t = "num" /\ MaxPob(g.filas).n > 0

TasaEsperada(g) == RoundHalfEven(Casos(g) * 10000000, MaxPob(g.filas).n)

MaxCasos(gs) == Max({Casos(gs[k]) : k \in DOMAIN gs})

IndiceEsperado(g, gs, w1, w2) ==
    RoundHalfEven(w1 * TasaEsperada(g) * MaxCasos(gs) + w2 * Casos(g) * 10000,
                  10 * MaxCasos(gs))

(* the batch a response was computed on, and the rows it reports *)
FilasLote ==
    IF resp.op = "comparar_entidades" THEN Seleccion(df, resp.arg[1]) ELSE df.filas

ColumnasLote ==
    IF resp.op = "zonas_calientes"
          \/ (resp.op = "indices_violencia" /\ resp.arg[1] = "municipio")
    THEN ColumnasMunicipio ELSE ColumnasEntidad

GruposLote == Lote(FilasLote, ColumnasLote)

FilasRespuesta ==
    CASE resp.op = "indices_violencia" -> resp.cuerpo.top_regiones
      [] resp.op = "comparar_entidades" ->
            [i \in DOMAIN resp.cuerpo |-> resp.cuerpo[i].fila]
      [] OTHER -> resp.cuerpo

GrupoDe(r) ==
    CHOOSE k \in DOMAIN GruposLote :
        /\ GruposLote[k].clave[1] =
               (IF resp.op = "zonas_calientes" THEN r.clave_municipio ELSE r.clave)
        /\ GruposLote[k].clave[Len(ColumnasLote)] = r.entidad

(* a batch query was answered on a published store in which every group of
   the batch has a positive population *)
ConsultaLote(ops) ==
    /\ Publicada
    /\ resp.op \in ops
    /\ resp.status # 404
    /\ GruposLote # <<>>
    /\ \A k \in DOMAIN GruposLote : PobPositiva(GruposLote[k])

----------------------------------------------------------------------------
(* C1: every batch query (lista_entidades, indices_violencia,
   comparar_entidades) answers with the rows of its regions, and the
   tasa_por_100k of each region with a positive population is
   count / population * 100000 rounded to 2 decimals, count being the number
   of stored records of the region. *)
C1_TasaPor100k ==
    ConsultaLote({"lista_entidades", "indices_violencia", "comparar_entidades"})
    /\ (resp.op = "indices_violencia" => resp.arg[1] = "entidad")
    => /\ resp.status = 200
       /\ \A i \in DOMAIN FilasRespuesta :
             LET r == FilasRespuesta[i]
                 g == CHOOSE k \in DOMAIN GruposLote :
                          GruposLote[k].clave[1] =
                              (IF resp.op = "lista_entidades"
                               THEN r.clave_entidad ELSE r.clave)
             IN  r.tasa_por_100k = Num(TasaEsperada(GruposLote[g]))

(* C2: a report on a region whose population is zero or missing is answered,
   and its rate is the explicit null, never 0. *)
C2_TasaIndefinida ==
    /\ Publicada
    /\ resp.op = "generar_reporte"
    /\ resp.status # 404
    /\ resp.arg[2] # ""
    /\ FilasDe(df.filas, "clave_entidad", Str(resp.arg[2])) # <<>>
    /\ ~PobPositiva([filas |-> FilasDe(df.filas, "clave_entidad", Str(resp.arg[2]))])
    => /\ resp.status = 200
       /\ resp.cuerpo.tasa_nacional_aproximada = Nulo

(* C3: the violence index of each row is
   w1 * tasa + w2 * (count / maxCountInBatch * 100) rounded to 2 decimals,
   with (0.6, 0.4) in indices_violencia and comparar_entidades and
   (0.4, 0.6) in zonas_calientes. *)
C3_IndiceViolencia ==
    ConsultaLote({"indices_violencia", "zonas_calientes", "comparar_entidades"})
    => /\ resp.status = 200
       /\ \A i \in DOMAIN FilasRespuesta :
             LET r == FilasRespuesta[i]
                 g == GruposLote[GrupoDe(r)]
             IN  r.indice_violencia =
                     IF resp.op = "zonas_calientes"
                     THEN Num(IndiceEsperado(g, GruposLote, 4, 6))
                     ELSE Num(IndiceEsperado(g, GruposLote, 6, 4))

(* C4: in comparar_entidades the volume term of a region is relative to the
   regions of the request: it is 100 for the region with the most records
   of the batch, and a region that another region of the batch exceeds has
   an index other than the one it has when compared alone. *)
C4_IndiceRelativoAlLote ==
    ConsultaLote({"comparar_entidades"})
    => /\ resp.status = 200
       /\ \A i \in DOMAIN FilasRespuesta :
             LET r == FilasRespuesta[i]
                 g == GruposLote[GrupoDe(r)]
                 solo == RoundHalfEven(6 * TasaEsperada(g) + 40000, 10)
             IN  IF Casos(g) = MaxCasos(GruposLote)
                 THEN r.indice_violencia = Num(solo)
                 ELSE r.indice_violencia.t = "num" /\ r.indice_violencia.n < solo

(* C5: an index >= 80 is classified critical, >= 60 high, >= 40 medium,
   >= 20 low and anything below very low; a boundary value belongs to the
   higher band. *)
C5_BandasDeRiesgo ==
    resp.op = "clasificar_riesgo" /\ resp.arg.t = "num"
    => /\ (resp.arg.n >= 80000) <=> (resp.cuerpo = "CRITICO")
       /\ (resp.arg.n >= 60000 /\ resp.arg.n < 80000) <=> (resp.cuerpo = "ALTO")
       /\ (resp.arg.n >= 40000 /\ resp.arg.n < 60000) <=> (resp.cuerpo = "MEDIO")
       /\ (resp.arg.n >= 20000 /\ resp.arg.n < 40000) <=> (resp.cuerpo = "BAJO")
       /\ (resp.arg.n < 20000) <=> (resp.cuerpo = "MUY BAJO")

(* the boundary 80.0 was classified, and it was classified critical *)
C5_Testigo ==
    /\ resp.op = "clasificar_riesgo"
    /\ resp.arg = Num(80000)
    /\ resp.cuerpo = "CRITICO"

(* C6, as the specification words it: the category is one of CRITICAL, HIGH,
   MEDIUM, LOW, VERY_LOW. *)
C6_CategoriasDelTexto ==
    resp.op = "clasificar_riesgo" /\ resp.arg.t = "num"
    => resp.cuerpo \in {"CRITICAL", "HIGH", "MEDIUM", "LOW", "VERY_LOW"}

(* C6: the category a numeric index is given is exactly one of the five
   labels of clasificar_riesgo (CRITICO, ALTO, MEDIO, BAJO, MUY BAJO, each
   behind its emoji in the source). *)
C6_CategoriaDeRiesgo ==
    resp.op = "clasificar_riesgo" /\ resp.arg.t = "num"
    => Cardinality({i \in DOMAIN EtiquetasRiesgo :
                        EtiquetasRiesgo[i] = resp.cuerpo}) = 1

(* an index of 0.5, below every threshold, was given a label *)
C6_Testigo ==
    /\ resp.op = "clasificar_riesgo"
    /\ resp.arg = Num(500)
    /\ resp.cuerpo = "MUY BAJO"

(* C7: in indices_violencia the percentile of a region is its rank fraction
   in the batch times 100: when the whole batch is reported, a region whose
   index no other reaches has percentile 100, and regions with equal
   indices have equal percentiles. *)
C7_Percentil ==
    ConsultaLote({"indices_violencia"})
    => /\ resp.status = 200
       /\ LET top == resp.cuerpo.top_regiones
          IN  /\ \A i, j \in DOMAIN top :
                    top[i].indice_violencia = top[j].indice_violencia
                    => top[i].percentil_nacional = top[j].percentil_nacional
              /\ \A i \in DOMAIN top :
                    (/\ Len(top) = Len(GruposLote)
                     /\ \A j \in DOMAIN top \ {i} :
                           Menor(top[j].indice_violencia, top[i].indice_violencia))
                    => top[i].percentil_nacional = Num(100)

(* C8: top_regiones is in descending order of index, and regions with equal
   indices keep the order of their group keys. *)
C8_OrdenDescendente ==
    ConsultaLote({"indices_violencia"})
    => /\ resp.status = 200
       /\ LET top == resp.cuerpo.top_regiones
          IN  \A i, j \in DOMAIN top :
                 i < j =>
                   /\ ~Menor(top[i].indice_violencia, top[j].indice_violencia)
                   /\ top[i].indice_violencia = top[j].indice_violencia
                      => GrupoDe(top[i]) < GrupoDe(top[j])

(* C9: limite cuts the ranked batch after every value was computed on the
   whole batch: min(limite, groups) rows are returned, each with the index
   it has in the whole batch, and no omitted group has a higher index than
   a returned one. *)
C9_LimiteTrasOrdenar ==
    ConsultaLote({"indices_violencia", "zonas_calientes"})
    => /\ resp.status = 200
       /\ LET top == FilasRespuesta
              lim == resp.arg[Len(resp.arg)]
              w == IF resp.op = "zonas_calientes" THEN <<4, 6>> ELSE <<6, 4>>
              esperado(k) == IndiceEsperado(GruposLote[k], GruposLote, w[1], w[2])
              dados == {GrupoDe(top[i]) : i \in DOMAIN top}
          IN  /\ Len(top) = IF lim < Len(GruposLote) THEN lim ELSE Len(GruposLote)
              /\ Cardinality(dados) = Len(top)
              /\ \A i \in DOMAIN top :
                    top[i].indice_violencia = Num(esperado(GrupoDe(top[i])))
              /\ \A k \in DOMAIN GruposLote \ dados :
                    \A d \in dados : esperado(k) <= esperado(d)

(* C10: the principal causes of a row are its most frequent values in
   descending count, at most 3, and values with equal counts are in the
   order in which they first appear among the records of the group. *)
C10_EmpatesTopN ==
    ConsultaLote({"indices_violencia", "zonas_calientes"})
    => /\ resp.status = 200
       /\ \A i \in DOMAIN FilasRespuesta :
             LET cp == FilasRespuesta[i].causas_principales
                 fs == GruposLote[GrupoDe(FilasRespuesta[i])].filas
                 veces(v) == Cardinality({k \in DOMAIN fs : fs[k]["causa_def_cat"] = v})
                 primera(v) == CHOOSE k \in DOMAIN fs :
                                  /\ fs[k]["causa_def_cat"] = v
                                  /\ \A m \in 1..(k - 1) : fs[m]["causa_def_cat"] # v
             IN  /\ Len(cp) <= 3
                 /\ \A a \in DOMAIN cp : cp[a][2] = veces(cp[a][1]) /\ cp[a][2] > 0
                 /\ \A a, b \in DOMAIN cp :
                       a < b => \/ cp[a][2] > cp[b][2]
                                \/ /\ cp[a][2] = cp[b][2]
                                   /\ primera(cp[a][1]) < primera(cp[b][1])

(* C11: a load whose cleaned record set is empty fails and publishes
   nothing: once a load has ended, the store is never a cleaned table of
   zero records. *)
C11_CargaVaciaFalla ==
    Publicada /\ carga.paso = "no" => df.filas # <<>>

(* C12: in a store published by a completed load every record has a parsed
   occurrence date, and the year of that date is 2024. *)
C12_SoloFechasDe2024 ==
    Publicada /\ carga.paso = "no"
    => \A i \in DOMAIN df.filas :
          /\ df.filas[i]["fecha_ocurr"].t = "fecha"
          /\ df.filas[i]["fecha_ocurr"].n \div 100 = 2024

(* C13: estadisticas_generales, perfil_demografico and patrones_temporales
   answer "No hay datos disponibles" when there is no table or the table
   has no records, and answer that the filters matched nothing only when the
   table has records and none of them passes the filters; neither case ends
   in an internal error. *)
C13_SinDatosOSinCoincidencias ==
    /\ resp.op \in {"estadisticas_generales", "perfil_demografico",
                    "patrones_temporales"}
    /\ carga.paso = "no"
    /\ df.hay => Publicada
    => IF ~df.hay \/ df.filas = <<>>
       THEN resp.status = 404 /\ resp.detalle = "No hay datos disponibles"
       ELSE /\ resp.detalle # "No hay datos disponibles"
            /\ (resp.op = "perfil_demografico"
                /\ Filtrar(df.filas, resp.arg[1], resp.arg[2]) = <<>>)
               => resp.status = 404 /\ resp.detalle = SinCoincidencias

(* C14: loading is an atomic swap: a request answered while cargar_datos
   runs read a cleaned table together with the indexes built on it, never
   the rows as read_csv returned them nor a new table beside the indexes of
   the store before. *)
C14_CargaAtomica ==
    resp.op # "ninguna" /\ carga.paso # "no"
    => /\ Publicada
       /\ entidades_info = IndiceEntidades(df)
       /\ municipios_info = IndiceMunicipios(df)

(* C15, as the specification words it: once the startup phase is over no
   request changes the table or the indexes, and no request starts a
   load. *)
C15_NingunaConsultaCarga ==
    [][fase = "sirviendo" /\ carga.paso = "no"
       => UNCHANGED <<df, entidades_info, municipios_info, carga>>]_vars

(* C15: once the startup phase is over, a request that finds a table
   assigned changes neither the table nor the indexes and starts no load;
   only a request that finds processor.df None makes get_data call
   cargar_datos again. *)
C15_ConsultaConTablaNoCarga ==
    [][fase = "sirviendo" /\ carga.paso = "no" /\ df.hay
       => UNCHANGED <<df, entidades_info, municipios_info, carga>>]_vars

(* a request was answered from a store with records that the startup load
   published *)
C15_Testigo ==
    /\ fase = "sirviendo" /\ carga.paso = "no"
    /\ Publicada /\ df.filas # <<>>
    /\ resp.op = "estadisticas_generales" /\ resp.status = 200

(* C16: loading is idempotent: a second cargar_datos on the same file
   leaves the table and both indexes as the first call left them, and so
   every query answers on it what it answered after the first call. *)
C16_CargaIdempotente ==
    resp.op = "cargar_datos"
    => /\ resp.cuerpo = Almacen(df, entidades_info, municipios_info)
       /\ RespuestasEstadisticas(resp.cuerpo.df) = RespuestasEstadisticas(df)
       /\ \A e \in FiltrosEntidad :
             RespuestasReporte(resp.cuerpo.df, "ejecutivo", e)
                 = RespuestasReporte(df, "ejecutivo", e)

(* a file with two records, one of them kept, was loaded twice *)
C16_Testigo ==
    /\ resp.op = "cargar_datos"
    /\ Publicada /\ Len(df.filas) = 1
    /\ DOMAIN entidades_info # {}
    /\ resp.cuerpo.df = df

(* the region codes of a list that no record of the store carries *)
CodigosSinRegistro(entidades) ==
    {e \in Rango(entidades) : FilasDe(df.filas, "clave_entidad", Str(e)) = <<>>}

(* C17: a region code that no stored record carries gives an empty result and
   never an error: in comparar_entidades such a code in the list adds no row
   and the query still answers with the rows of the codes that have records
   (regions of positive population and rate);
   perfil_demografico and exportar_datos filtered by such a code answer
   "not found" or an empty export, not an internal error. *)
C17_CodigoDesconocido ==
    Publicada /\ carga.paso = "no" /\ df.filas # <<>>
    => /\ (/\ resp.op = "comparar_entidades"
           /\ CodigosSinRegistro(resp.arg[1]) # {}
           /\ Seleccion(df, resp.arg[1]) # <<>>
           /\ \A k \in DOMAIN GruposLote :
                 PobPositiva(GruposLote[k]) /\ TasaEsperada(GruposLote[k]) > 0)
          => /\ resp.status = 200
             /\ {FilasRespuesta[i].clave : i \in DOMAIN FilasRespuesta}
                    = Valores(Seleccion(df, resp.arg[1]), "clave_entidad")
       /\ (/\ resp.op = "comparar_entidades"
           /\ Seleccion(df, resp.arg[1]) = <<>>)
          => resp.status = 404
       /\ (/\ resp.op = "perfil_demografico"
           /\ resp.arg[1] # ""
           /\ CodigosSinRegistro(<<resp.arg[1]>>) # {})
          => resp.status = 404 /\ resp.detalle = SinCoincidencias
       /\ (/\ resp.op = "exportar_datos"
           /\ resp.arg[1] # ""
           /\ CodigosSinRegistro(<<resp.arg[1]>>) # {})
          => resp.status = 200 /\ resp.cuerpo.total_registros = 0

(* C18: every rate, ratio and index of a response is a finite number or the
   explicit null: tendencias_regionales on two regions that have records is
   answered, with a null ratio for each month in which the southern region
   has no record and a finite ratio for the others; indices_violencia is
   answered with a null index for each region whose population is zero or
   missing and a finite index for the others. *)
C18_FinitoONulo ==
    Publicada /\ carga.paso = "no" /\ df.filas # <<>>
    => /\ (/\ resp.op = "tendencias_regionales"
           /\ Filtrar(df.filas, resp.arg[1], "") # <<>>
           /\ Filtrar(df.filas, resp.arg[2], "") # <<>>)
          => /\ resp.status = 200
             /\ \A m \in 1..12 :
                   LET r == resp.cuerpo.analisis_mensual[m].ratio
                   IN  IF EnMes(Filtrar(df.filas, resp.arg[2], ""), m) = 0
                       THEN r = Nulo
                       ELSE r.t = "num"
       /\ resp.op = "indices_violencia"
          => /\ resp.status = 200
             /\ \A i \in DOMAIN FilasRespuesta :
                   LET r == FilasRespuesta[i]
                   IN  IF PobPositiva(GruposLote[GrupoDe(r)])
                       THEN r.indice_violencia.t = "num"
                       ELSE r.indice_violencia = Nulo

(* a comparar_entidades request was answered on a published store in which
   every selected region has records with a positive population *)
Comparada ==
    /\ Publicada /\ carga.paso = "no"
    /\ resp.op = "comparar_entidades"
    /\ Seleccion(df, resp.arg[1]) # <<>>
    /\ \A k \in DOMAIN GruposLote : PobPositiva(GruposLote[k])

(* C19: comparar_entidades with a list of exactly one region code that has
   records (and a rate that is not zero) is answered for each metric with
   one row, of ranking 1, vs_promedio 0 and factor_vs_maximo 1. *)
C19_UnaSolaRegion ==
    /\ Comparada
    /\ Len(resp.arg[1]) = 1
    /\ TasaEsperada(GruposLote[1]) > 0
    => /\ resp.status = 200
       /\ Len(resp.cuerpo) = 1
       /\ resp.cuerpo[1].ranking = 1
       /\ resp.cuerpo[1].contexto.vs_promedio = Num(0)
       /\ resp.cuerpo[1].contexto.factor_vs_maximo = Num(100)

(* C20: comparar_entidades on regions whose values of the chosen metric are
   all zero (the rate: the count and the index of a region with records are
   positive) is answered, with vs_promedio null and factor_vs_maximo null in
   every row: no error, and no 0 in their place. *)
C20_PromedioOMaximoCero ==
    /\ Comparada
    /\ resp.arg[2] = "tasa"
    /\ \A k \in DOMAIN GruposLote : TasaEsperada(GruposLote[k]) = 0
    => /\ resp.status = 200
       /\ \A i \in DOMAIN resp.cuerpo :
             /\ resp.cuerpo[i].contexto.vs_promedio = Nulo
             /\ resp.cuerpo[i].contexto.factor_vs_maximo = Nulo

(* C21: comparar_entidades gives the rankings 1..n, each once, to the n
   regions found, on the metric that metrica selects: a region with a
   strictly greater value of it has the smaller ranking. *)
C21_RankingPorMetrica ==
    /\ Comparada
    /\ \A k \in DOMAIN GruposLote : TasaEsperada(GruposLote[k]) > 0
    => /\ resp.status = 200
       /\ Len(resp.cuerpo) = Len(GruposLote)
       /\ {resp.cuerpo[i].fila.clave : i \in DOMAIN resp.cuerpo}
              = {GruposLote[k].clave[1] : k \in DOMAIN GruposLote}
       /\ {resp.cuerpo[i].ranking : i \in DOMAIN resp.cuerpo} = 1..Len(GruposLote)
       /\ \A i, j \in DOMAIN resp.cuerpo :
             ValorMetrica(resp.cuerpo[i].fila, resp.arg[2]).n
                 > ValorMetrica(resp.cuerpo[j].fila, resp.arg[2]).n
             => resp.cuerpo[i].ranking < resp.cuerpo[j].ranking

(* the number of records of the selection of a response in month m *)
CasosDelMes(m) == EnMes(Filtrar(df.filas, resp.arg[2], ""), m)

(* the changes, in percent, between two months that follow each other in
   the calendar and both have records *)
TransicionesValidas ==
    {m \in 1..11 : CasosDelMes(m) > 0 /\ CasosDelMes(m + 1) > 0}

(* C22: the monthly tendencia_general is the mean of the percentage changes
   between calendar-consecutive months that both have records; without such
   a pair of months it is 0, and no change is computed across a month
   without records. *)
C22_TendenciaMensual ==
    /\ Publicada /\ carga.paso = "no"
    /\ resp.op = "analisis_tendencias"
    /\ resp.arg[1] = "mensual"
    /\ Filtrar(df.filas, resp.arg[2], "") # <<>>
    => /\ resp.status = 200
       /\ TransicionesValidas = {} => resp.cuerpo.tendencia_general = Num(0)
       /\ \A m \in 1..11 :
             TransicionesValidas = {m}
             => resp.cuerpo.tendencia_general =
                    Num(RoundHalfEven((CasosDelMes(m + 1) - CasosDelMes(m)) * 1000,
                                      CasosDelMes(m)))

(* the value at x of the line a response reports, in 1716ths, for the
   monthly counts it reports *)
LineaEn(x) ==
    PendienteNum(resp.cuerpo.datos_historicos) * x
        + InterceptoNum(resp.cuerpo.datos_historicos)

(* C23: a forecast of horizon h has exactly h predictions, for the months
   13..12+h; each is the value there of the one least-squares line of the 12
   zero-filled monthly counts, with a negative value taken as 0, rounded to
   the nearest integer: an integer that is not negative. *)
C23_Predicciones ==
    resp.op = "predicciones_tendencias" /\ resp.status = 200
    => /\ Publicada
       /\ resp.cuerpo.datos_historicos =
              [m \in 1..12 |-> EnMes(Filtrar(df.filas, resp.arg[2], ""), m)]
       /\ SumaMeses([m \in 1..12 |->
              1716 * resp.cuerpo.datos_historicos[m] - LineaEn(m - 1)]) = 0
       /\ SumaMeses([m \in 1..12 |->
              (m - 1) * (1716 * resp.cuerpo.datos_historicos[m] - LineaEn(m - 1))]) = 0
       /\ DOMAIN resp.cuerpo.predicciones = 1..resp.arg[1]
       /\ \A i \in DOMAIN resp.cuerpo.predicciones :
             LET p == resp.cuerpo.predicciones[i]
                 v == IF LineaEn(11 + i) < 0 THEN 0 ELSE LineaEn(11 + i)
             IN  /\ p.mes = 12 + i
                 /\ p.casos_predichos \in Nat
                 /\ 2 * (1716 * p.casos_predichos - v) \in -1716..1716

C23_Testigo ==
    /\ resp.op = "predicciones_tendencias" /\ resp.status = 200
    /\ resp.arg[1] = 2
    /\ LineaEn(12) < 0
    /\ resp.cuerpo.predicciones[1].casos_predichos = 0

(* the monthly counts of a forecast have no defined correlation with the
   month: fewer than two months have records, or every month has the same
   count *)
CorrelacionIndefinida(casos) ==
    \/ Cardinality({m \in 1..12 : casos[m] > 0}) < 2
    \/ \A m \in 1..12 : casos[m] = casos[1]

(* C24: when the squared correlation of the monthly counts is undefined the
   forecast is answered and reports r_cuadrado 0: it reports no NaN and
   does not fail. *)
C24_RCuadradoIndefinido ==
    resp.op = "prediccion" /\ CorrelacionIndefinida(resp.arg[2])
    => resp.status = 200 /\ resp.cuerpo.r_cuadrado = Num(0)

(* v is the greatest of the populations that the records carry *)
EsPoblacionMaxima(v, filas) ==
    /\ \E i \in DOMAIN filas : filas[i]["pob_total"] = v
    /\ \A i \in DOMAIN filas : filas[i]["pob_total"].n <= v.n

(* records of one region carry different populations *)
PoblacionesDistintas ==
    \E i, j \in DOMAIN df.filas :
        /\ df.filas[i]["clave_entidad"] = df.filas[j]["clave_entidad"]
        /\ df.filas[i]["pob_total"] # df.filas[j]["pob_total"]

(* C25: when records of one region carry different populations (all of them
   positive numbers) the load and the queries do not fail, and the population
   of the region is the greatest of its records, in entidades_info and in the
   rows of the queries that compute its rate. *)
C25_PoblacionMaxima ==
    /\ Publicada /\ carga.paso = "no"
    /\ PoblacionesDistintas
    /\ \A k \in DOMAIN Lote(df.filas, ColumnasEntidad) :
          PobPositiva(Lote(df.filas, ColumnasEntidad)[k])
    /\ \A i \in DOMAIN df.filas : df.filas[i]["pob_total"].t = "num"
    => /\ \A k \in DOMAIN entidades_info :
             EsPoblacionMaxima(entidades_info[k].pob_total,
                               FilasDe(df.filas, "clave_entidad", k))
       /\ (/\ resp.op \in {"lista_entidades", "indices_violencia"}
           /\ resp.op = "indices_violencia" => resp.arg[1] = "entidad")
          => /\ resp.status = 200
             /\ \A i \in DOMAIN FilasRespuesta :
                   LET r == FilasRespuesta[i]
                       c == IF resp.op = "lista_entidades"
                            THEN r.clave_entidad ELSE r.clave
                   IN  r.poblacion = entidades_info[c].pob_total

(* the text of a cell as the file has it *)
Texto(c) == IF c.t = "num" THEN ToString(c.n) ELSE c.s

(* the stored records that satisfy every predicate supplied *)
Cumplen(entidad, municipio, filtros) ==
    SelectSeq(df.filas,
        LAMBDA f : /\ entidad # "" => Texto(f["clave_entidad"]) = entidad
                   /\ municipio # "" => Texto(f["clave_municipio"]) = municipio
                   /\ filtros.campo # "" /\ filtros.lista
                          => f[filtros.campo] \in filtros.valores)

(* C26: filtering is the conjunction of the predicates supplied: whenever
   perfil_demografico (entidad, municipio) or exportar_datos (entidad and the
   list-valued field of filtros) answers without an internal error, it has
   used exactly the stored records that satisfy every predicate supplied,
   all the records when none is supplied; perfil_demografico answers "not
   found" only when no stored record satisfies them. *)
C26_ConjuncionDeFiltros ==
    /\ Publicada /\ carga.paso = "no" /\ resp.status # 500
    /\ {"clave_entidad", "clave_municipio", "causa_def_cat"} \subseteq df.cols
    => /\ resp.op = "perfil_demografico"
          => LET sel == Cumplen(resp.arg[1], resp.arg[2], SinFiltros)
             IN  IF sel = <<>> THEN resp.status = 404
                 ELSE /\ resp.status = 200
                      /\ resp.cuerpo.total_casos_analizados = Len(sel)
       /\ resp.op = "exportar_datos"
          => LET sel == Cumplen(resp.arg[1], "", resp.arg[2])
             IN  /\ resp.status = 200
                 /\ resp.cuerpo.total_registros = Len(sel)
                 /\ resp.cuerpo.datos
                        = [i \in DOMAIN sel |->
                              [c \in columnas_export |-> sel[i][c]]]

(* a filtered perfil_demografico is answered from the matching records *)
C26_Testigo ==
    /\ Publicada /\ carga.paso = "no"
    /\ resp.op = "perfil_demografico" /\ resp.status = 200
    /\ resp.arg[1] # "" /\ resp.arg[2] # ""
    /\ resp.cuerpo.total_casos_analizados < Len(df.filas)

(* C27: a failed load changes nothing: whenever cargar_datos returns False,
   the table and both indexes are exactly what they were before the call. *)
C27_CargaFallidaNoCambia ==
    [][resp'.op = "cargar_datos" /\ ~cargar_datos_retorno(resp'.arg)
       => Almacen(df', entidades_info', municipios_info')
              = Almacen(df, entidades_info, municipios_info)]_vars

(* v is the greatest population that the records declare, NaN when none
   declares a number *)
EsMayorDeclarada(v, filas) ==
    LET decl == {i \in DOMAIN filas : filas[i]["pob_total"].t = "num"}
    IN  IF decl = {} THEN v = NaN
        ELSE /\ \E i \in decl : filas[i]["pob_total"] = v
             /\ \A i \in decl : filas[i]["pob_total"].n <= v.n

(* C28: after every successful load entidades_info has exactly one entry per
   region code of the current records and municipios_info one per pair of
   region and municipality codes, none of an earlier load surviving; the
   population of each entry is the greatest that the records of its group
   declare. *)
C28_IndicesDeLaCargaActual ==
    resp.op = "cargar_datos" /\ cargar_datos_retorno(resp.arg)
    => /\ DOMAIN entidades_info = Valores(df.filas, "clave_entidad")
       /\ DOMAIN municipios_info
              = {<<df.filas[i]["clave_entidad"], df.filas[i]["clave_municipio"]>> :
                    i \in DOMAIN df.filas}
       /\ \A k \in DOMAIN entidades_info :
              EsMayorDeclarada(entidades_info[k].pob_total,
                               FilasDe(df.filas, "clave_entidad", k))
       /\ \A k \in DOMAIN municipios_info :
              EsMayorDeclarada(municipios_info[k].pob_total,
                  SelectSeq(df.filas,
                      LAMBDA f : /\ f["clave_entidad"] = k[1]
                                 /\ f["clave_municipio"] = k[2]))

(* a file with two records of one region, in two municipalities and with
   different populations, was loaded *)
C28_Testigo ==
    /\ resp.op = "cargar_datos" /\ cargar_datos_retorno(resp.arg)
    /\ Len(df.filas) = 2
    /\ Cardinality(DOMAIN entidades_info) = 1
    /\ Cardinality(DOMAIN municipios_info) = 2
    /\ df.filas[1]["pob_total"] # df.filas[2]["pob_total"]

(* the rows of a heat map and the region codes of the stored records *)
FilasMapa == resp.cuerpo.datos

(* C29: mapa_calor_geografico with tipo = "entidad" answers with exactly one
   row per region that has records, the total_casos of a row being the number
   of records of its region, so that the totals add up to the number of
   stored records. *)
C29_UnaFilaPorRegion ==
    /\ Publicada /\ carga.paso = "no" /\ df.filas # <<>>
    /\ resp.op = "mapa_calor_geografico" /\ resp.arg[1] = "entidad"
    /\ \A i \in DOMAIN df.filas :
           df.filas[i]["pob_total"].t = "num" /\ df.filas[i]["pob_total"].n > 0
    => /\ resp.status = 200
       /\ Len(FilasMapa) = Cardinality(Valores(df.filas, "clave_entidad"))
       /\ \A k \in Valores(df.filas, "clave_entidad") :
              \E i \in DOMAIN FilasMapa :
                  /\ FilasMapa[i].clave = k
                  /\ FilasMapa[i].total_casos
                         = Len(FilasDe(df.filas, "clave_entidad", k))
       /\ Suma([i \in DOMAIN FilasMapa |-> FilasMapa[i].total_casos])
              = Len(df.filas)

(* C30: an index that is undefined (the population of the region is missing,
   so rate and index are NaN) is given no risk category: clasificar_riesgo
   answers with one of the five levels only for a defined index, and never
   with the lowest level for an undefined one. *)
C30_IndiceIndefinidoSinCategoria ==
    resp.op = "clasificar_riesgo" /\ resp.arg.t = "nan"
    => resp.cuerpo \notin Rango(EtiquetasRiesgo)

====
